---- MODULE Spec2Model ----
(***************************************************************************)
(* The indexing engine of usdc-api (src/src/indexer/indexer.module.ts):    *)
(* one cycle is startIndexer = handleReorgs -> fetchLogs ->                *)
(* deleteOldTransfers, run against a chain node whose view may advance or  *)
(* reorganize between any two awaits, and a Transfer table with a unique   *)
(* index on (txHash, logIndex).                                            *)
(***************************************************************************)
EXTENDS Integers, Sequences, FiniteSets, TLC

\* ---------------------------------------------------------------- bounds
MaxBlock == 2      \* highest block number the chain reaches
MaxForks == 2      \* number of distinct chain histories (reorganizations + 1)
MaxChunk == 2      \* MAX_BLOCKS is configured in 1..MaxChunk
MaxCap == 2        \* MAX_INDEXER_SIZE is configured in 0..MaxCap
MaxConf == 1       \* CONFIRMATIONS is configured in 0..MaxConf

\* fetchWithRetry's defaults
RETRIES == 5
INITIAL_DELAY == 1000
JITTER_CEILING == 300

\* IEEE 754 double precision: the bits of the fraction, and the bits of a value
\* of Math.random()
FRACTION_BITS == 52
RANDOM_BITS == 53

\* The transfer events that may ever appear on the chain, by natural key.
TxKeys ==
    { [txHash |-> "t1", logIndex |-> 0],
      [txHash |-> "t1", logIndex |-> 1],
      [txHash |-> "t2", logIndex |-> 0] }

KeyOrder == << [txHash |-> "t1", logIndex |-> 0],
               [txHash |-> "t1", logIndex |-> 1],
               [txHash |-> "t2", logIndex |-> 0] >>

NoRecord == [id |-> 0]

\* The value of a callback of logs.map that has not returned yet.
Pending == [id |-> -1]

VARIABLES
    \* the chain as the node reports it
    head,          \* provider.getBlockNumber()
    fork,          \* identity of the current history; a block hash is (number, fork)
    chainHash,     \* chainHash[n]: hash of block n, 0 when the node has no block n
    logBlock,      \* logBlock[k]: block holding transfer event k, 0 when not mined
    \* configuration (ConfigService)
    cfg,
    \* the Transfer table
    store,
    \* the running cycle
    pc, last, lastIndexed, safeBlock, toBlock, fromBlock, transferCount,
    retries, delay, logs, transfers,
    ids,           \* deleteOldTransfers: the ids findMany returned
    excess,        \* deleteOldTransfers: totalTransfers - MAX_INDEXER_SIZE
    \* observation of the run (history, not read by the program)
    outcome,       \* how the latest cycle ended
    ran,           \* the steps of startIndexer that returned in this cycle
    attempts,      \* invocations of fn by the current fetchWithRetry call
    waitTime,      \* the latest wait of the current fetchWithRetry call, as the
                   \* range of milliseconds it lies in: from atLeast up to upTo,
                   \* upTo itself included when reached; NoWait if none
    fetched,       \* the windows passed to getLogs in this cycle, in order
    fault,         \* the awaited call whose failure last affected the cycle
    missed,        \* blocks the latest cycle's scan, interrupted, was due to fetch
                   \* and did not
    evicted,       \* the rows deleteOldTransfers deleted in this cycle
    view           \* completed cycles in a row against an unchanged chain view,
                   \* and the rows the latest of them inserted

chainVars == << head, fork, chainHash, logBlock >>
scanVars == << lastIndexed, safeBlock, toBlock, fromBlock, transferCount >>
localVars == << last, lastIndexed, safeBlock, toBlock, fromBlock, transferCount,
               retries, delay, logs, transfers, ids, excess >>
vars == << head, fork, chainHash, logBlock, cfg, store, pc, last, lastIndexed,
           safeBlock, toBlock, fromBlock, transferCount, retries, delay, logs,
           transfers, ids, excess, outcome, ran, attempts, waitTime, fetched, fault,
           missed, evicted, view >>

\* ---------------------------------------------------------------- helpers
Max(a, b) == IF a >= b THEN a ELSE b

Min(a, b) == IF a <= b THEN a ELSE b

KeyOf(r) == [txHash |-> r.txHash, logIndex |-> r.logIndex]

Keys(S) == { KeyOf(r) : r \in S }

\* ---------------------------------------------------------------- the store
\* Transfer_pkey: the id is an opaque token the client generates, unique among the
\* rows. The model builds it from the row's natural key and the number of rows
\* already holding that key, so that two rows never share an id.
KeyIndex(k) == CHOOSE i \in 1..Len(KeyOrder) : KeyOrder[i] = k

FreshId(S, t) ==
    KeyIndex(KeyOf(t)) + Len(KeyOrder) * Cardinality({ r \in S : KeyOf(r) = KeyOf(t) })

\* One row of createMany without skipDuplicates: every row handed over is written.
InsertRowNoSkip(S, t) ==
    S \cup { [id |-> FreshId(S, t), txHash |-> t.txHash, logIndex |-> t.logIndex,
              block |-> t.block, blockHash |-> t.blockHash] }

\* One row of an upsert on the natural key: an existing row takes the new block
\* and hash.
InsertRowUpsert(S, t) ==
    { r \in S : KeyOf(r) # KeyOf(t) } \cup
    { [id |-> FreshId({ r \in S : KeyOf(r) # KeyOf(t) }, t), txHash |-> t.txHash,
       logIndex |-> t.logIndex, block |-> t.block, blockHash |-> t.blockHash] }

\* One row of createMany({skipDuplicates: true}) under the unique index
\* Transfer_txHash_logIndex_key: a row whose natural key exists is skipped.
InsertRow(S, t) ==
    IF KeyOf(t) \in Keys(S)
    THEN S
    ELSE S \cup { [id |-> FreshId(S, t), txHash |-> t.txHash, logIndex |-> t.logIndex,
                   block |-> t.block, blockHash |-> t.blockHash] }

RECURSIVE createMany(_, _)
createMany(S, data) ==
    IF data = << >> THEN S
    ELSE createMany(InsertRow(S, Head(data)), Tail(data))

\* findFirst({orderBy: {block: 'desc'}}): the rows a descending sort may put first.
HighestRows(S) == { r \in S : \A q \in S : q.block <= r.block }

\* getLastIndexedBlock(): null (NoRecord) for an empty table.
getLastIndexedBlock(S) == IF S = {} THEN { NoRecord } ELSE HighestRows(S)

\* (await this.getLastIndexedBlock())?.block || 0
LastBlockOrZero(S) == IF S = {} THEN 0 ELSE (CHOOSE r \in HighestRows(S) : TRUE).block

\* ---------------------------------------------------------------- the chain
\* provider.getBlock(n): 0 stands for null (no such block).
getBlock(n) == IF n \in 1..MaxBlock /\ n <= head THEN chainHash[n] ELSE 0

RECURSIVE LogsFrom(_, _)
LogsFrom(b, to) ==
    IF b > to \/ b > MaxBlock THEN << >>
    ELSE LET here == SelectSeq(KeyOrder, LAMBDA k : logBlock[k] = b)
             asLogs == [i \in 1..Len(here) |->
                          [txHash |-> here[i].txHash, logIndex |-> here[i].logIndex,
                           blockNumber |-> b]]
         IN  asLogs \o LogsFrom(b + 1, to)

\* provider.getLogs({fromBlock, toBlock}): the events of the window, block by block.
getLogs(from, to) == LogsFrom(Max(from, 1), to)

\* A misbehaving node may repeat an entry of its answer.
Responses(from, to) ==
    LET exact == getLogs(from, to)
    IN  IF exact = << >> THEN { exact } ELSE { exact, Append(exact, exact[1]) }

\* ---------------------------------------------------------------- Init
\* No timer of fetchWithRetry is set.
NoWait == [atLeast |-> 0, upTo |-> 0, reached |-> TRUE]

NoFault == [call |-> "none", attempts |-> 0, err |-> 0]

NoView == [runs |-> 0, clean |-> FALSE, added |-> 0]

Configs ==
    [CHUNK_SIZE : 1..MaxChunk, MAX_INDEXER_SIZE : 0..MaxCap, CONFIRMATIONS : 0..MaxConf]

Init ==
    /\ head = 0
    /\ fork = 1
    /\ chainHash = [n \in 1..MaxBlock |-> 0]
    /\ logBlock = [k \in TxKeys |-> 0]
    /\ cfg \in Configs
    /\ store = {}
    /\ pc = "idle"
    /\ last = NoRecord
    /\ lastIndexed = 0
    /\ safeBlock = 0
    /\ toBlock = 0
    /\ fromBlock = 0
    /\ transferCount = 0
    /\ retries = RETRIES
    /\ delay = INITIAL_DELAY
    /\ logs = << >>
    /\ transfers = << >>
    /\ ids = {}
    /\ excess = 0
    /\ outcome = "none"
    /\ ran = << >>
    /\ attempts = 0
    /\ waitTime = NoWait
    /\ fetched = << >>
    /\ fault = NoFault
    /\ missed = {}
    /\ evicted = {}
    /\ view = NoView

\* ---------------------------------------------------------------- the chain moves
\* The node's view gains a block of the current history, holding any of the
\* transfer events not yet mined.
ChainMine ==
    /\ head < MaxBlock
    /\ \E S \in SUBSET { k \in TxKeys : logBlock[k] = 0 } :
          logBlock' = [k \in TxKeys |-> IF k \in S THEN head + 1 ELSE logBlock[k]]
    /\ head' = head + 1
    /\ chainHash' = [chainHash EXCEPT ![head + 1] = fork]
    /\ view' = NoView
    /\ UNCHANGED << fork, cfg, store, pc, last, lastIndexed, safeBlock, toBlock,
                    fromBlock, transferCount, retries, delay, logs, transfers,
                    ids, excess, outcome, ran, attempts, waitTime, fetched, fault, missed,
                    evicted >>

\* Reorganization at height k: the blocks from k up leave the canonical chain and
\* their events return to the pool; blocks mined from now on carry new hashes.
ChainReorg ==
    /\ fork < MaxForks
    /\ \E k \in 1..head :
          /\ head' = k - 1
          /\ chainHash' = [n \in 1..MaxBlock |-> IF n >= k THEN 0 ELSE chainHash[n]]
          /\ logBlock' = [x \in TxKeys |-> IF logBlock[x] >= k THEN 0 ELSE logBlock[x]]
    /\ fork' = fork + 1
    /\ view' = NoView
    /\ UNCHANGED << cfg, store, pc, last, lastIndexed, safeBlock, toBlock,
                    fromBlock, transferCount, retries, delay, logs, transfers,
                    ids, excess, outcome, ran, attempts, waitTime, fetched, fault, missed,
                    evicted >>

\* ---------------------------------------------------------------- the cycle
\* Locals of a cycle that is not running.
ResetLocals ==
    /\ last' = NoRecord
    /\ lastIndexed' = 0
    /\ safeBlock' = 0
    /\ toBlock' = 0
    /\ fromBlock' = 0
    /\ transferCount' = 0
    /\ retries' = RETRIES
    /\ delay' = INITIAL_DELAY
    /\ logs' = << >>
    /\ transfers' = << >>
    /\ ids' = {}
    /\ excess' = 0

\* The window that a scan stopped now was fetching or about to fetch, once at
\* least one chunk of the scan has been inserted: blocks the scan would have
\* fetched had it gone on.
LeftUnfetched ==
    IF /\ toBlock < safeBlock
       /\ pc = "lookup" \/ (pc = "loop" /\ transferCount < cfg.MAX_INDEXER_SIZE)
    THEN fromBlock..toBlock
    ELSE {}

\* A handler that logs the error and lets the cycle go on to the eviction.
CycleErrorThenEvict(f) ==
    /\ pc' = "evict"
    /\ outcome' = "error"
    /\ fault' = f
    /\ missed' = LeftUnfetched
    /\ view' = NoView
    /\ fetched' = fetched
    /\ waitTime' = NoWait
    /\ ResetLocals

\* catch (err) { this.logger.error('Indexer loop error', err) }
CycleError(f) ==
    /\ pc' = "idle"
    /\ outcome' = "error"
    /\ fault' = f
    /\ missed' = LeftUnfetched
    /\ view' = NoView
    /\ fetched' = fetched
    /\ waitTime' = NoWait
    /\ ResetLocals

\* An awaited call rejects after n invocations.
Rejected(call, n) == [call |-> call, attempts |-> n, err |-> n]

\* startIndexer: the step that follows each step of the cycle.
NextStepEvictFirst(step) ==
    CASE step = "handleReorgs" -> "evict"
      [] step = "deleteOldTransfers" -> "fetch"
      [] step = "fetchLogs" -> "idle"

NextStep(step) ==
    CASE step = "handleReorgs" -> "fetch"
      [] step = "fetchLogs" -> "evict"
      [] step = "deleteOldTransfers" -> "idle"

\* A step of startIndexer returns: the cycle goes on to the next step, or ends.
Advance(step) ==
    /\ pc' = NextStep(step)
    /\ ran' = Append(ran, step)
    /\ IF NextStep(step) = "idle"
       THEN /\ outcome' = "completed"
            /\ view' = IF view.clean
                       THEN [view EXCEPT !.runs = view.runs + 1, !.clean = FALSE]
                       ELSE NoView
       ELSE UNCHANGED << outcome, view >>

\* A trigger that calls startIndexer whether or not a cycle is running.
CanStartAnytime == TRUE

\* onModuleInit awaits the one call of startIndexer: a cycle begins only when
\* none is running.
CanStart == pc = "idle"

\* onModuleInit -> startIndexer
StartCycle ==
    /\ CanStart
    /\ pc' = "reorg"
    /\ outcome' = "running"
    /\ ran' = << >>
    /\ fetched' = << >>
    /\ fault' = NoFault
    /\ attempts' = 0
    /\ waitTime' = NoWait
    /\ missed' = {}
    /\ view' = [runs |-> IF view.runs = 2 THEN 1 ELSE view.runs, clean |-> TRUE,
                added |-> 0]
    /\ evicted' = {}
    /\ UNCHANGED << chainVars, cfg, store, localVars >>

\* where: { block: { gte: last.block } }
RollbackFilterGt(r, l) == r.block > l.block

RollbackFilter(r, l) == r.block >= l.block

\* !chainBlock || chainBlock.hash !== last.blockHash
Diverged(l) == getBlock(l.block) = 0 \/ getBlock(l.block) # l.blockHash

\* handleReorgs, first await: const last = await this.getLastIndexedBlock();
\* if (!last) return;
handleReorgs ==
    /\ pc = "reorg"
    /\ \/ \E l \in getLastIndexedBlock(store) :
            IF l = NoRecord
            THEN /\ Advance("handleReorgs")
                 /\ UNCHANGED << localVars, fault, missed, fetched, waitTime >>
            ELSE /\ last' = l
                 /\ pc' = "reorgBlock"
                 /\ UNCHANGED << scanVars, retries, delay, logs, transfers, ids,
                                 excess, outcome, ran, view, fault, missed, fetched,
                                 waitTime >>
       \/ \* prisma.transfer.findFirst rejects
          /\ CycleError(Rejected("findFirst", 1))
          /\ UNCHANGED ran
    /\ UNCHANGED << chainVars, cfg, store, attempts, evicted >>

\* handleReorgs, second await: provider.getBlock(last.block) and the comparison.
handleReorgsGetBlock ==
    /\ pc = "reorgBlock"
    /\ \/ /\ IF Diverged(last)
             THEN /\ pc' = "reorgDelete"
                  /\ UNCHANGED << outcome, ran, view >>
             ELSE Advance("handleReorgs")
          /\ UNCHANGED << localVars, fault, missed, fetched, waitTime >>
       \/ \* provider.getBlock(last.block) rejects
          /\ CycleError(Rejected("getBlock", 1))
          /\ UNCHANGED ran
    /\ UNCHANGED << chainVars, cfg, store, attempts, evicted >>

\* handleReorgs, third await: deleteMany({ where: { block: { gte: last.block } } })
handleReorgsDeleteMany ==
    /\ pc = "reorgDelete"
    /\ \/ /\ store' = { r \in store : ~RollbackFilter(r, last) }
          /\ pc' = "reorgReturn"
          /\ UNCHANGED << localVars, outcome, ran, view, fault, missed, fetched,
                          waitTime >>
       \/ \* prisma.transfer.deleteMany rejects
          /\ CycleError(Rejected("deleteMany", 1))
          /\ UNCHANGED << store, ran >>
    /\ UNCHANGED << chainVars, cfg, attempts, evicted >>

\* handleReorgs returns once deleteMany has resolved.
handleReorgsReturn ==
    /\ pc = "reorgReturn"
    /\ Advance("handleReorgs")
    /\ UNCHANGED << chainVars, cfg, store, localVars, attempts, waitTime, fetched,
                    fault, missed, evicted >>

\* Math.max(lastIndexed, toBlock - CHUNK_SIZE + 1)
WindowFromAtFrontier(l, t) == Max(l, t - cfg.CHUNK_SIZE + 1)

\* Math.max(lastIndexed + 1, toBlock - CHUNK_SIZE)
WindowFromWide(l, t) == Max(l + 1, t - cfg.CHUNK_SIZE)

\* Math.max(lastIndexed + 1, toBlock - CHUNK_SIZE + 1)
WindowFrom(l, t) == Max(l + 1, t - cfg.CHUNK_SIZE + 1)

\* const safeBlock = latestBlock
SafeBlockAtHead(latestBlock) == latestBlock

\* const safeBlock = latestBlock - CONFIRMATIONS
SafeBlock(latestBlock) == latestBlock - cfg.CONFIRMATIONS

\* fetchLogs, first await: lastIndexed = (await this.getLastIndexedBlock())?.block || 0
fetchLogsStart ==
    /\ pc = "fetch"
    /\ \/ /\ lastIndexed' = LastBlockOrZero(store)
          /\ transferCount' = 0
          /\ last' = NoRecord
          /\ pc' = "head"
          /\ UNCHANGED << safeBlock, toBlock, fromBlock, retries, delay, logs,
                          transfers, ids, excess, outcome, fault, missed, view, fetched,
                          waitTime >>
       \/ \* prisma.transfer.findFirst rejects
          CycleError(Rejected("findFirst", 1))
    /\ UNCHANGED << chainVars, cfg, store, ran, attempts, evicted >>

\* fetchLogs, second await: latestBlock = await provider.getBlockNumber(), then
\* safeBlock and the first window.
fetchLogsHead ==
    /\ pc = "head"
    /\ \/ /\ safeBlock' = SafeBlock(head)
          /\ toBlock' = SafeBlock(head)
          /\ fromBlock' = WindowFrom(lastIndexed, SafeBlock(head))
          /\ pc' = "loop"
          /\ UNCHANGED << last, lastIndexed, transferCount, retries, delay, logs,
                          transfers, ids, excess, outcome, fault, missed, view, fetched,
                          waitTime >>
       \/ \* provider.getBlockNumber() rejects
          CycleError(Rejected("getBlockNumber", 1))
    /\ UNCHANGED << chainVars, cfg, store, ran, attempts, evicted >>

\* while (transferCount < MAX_INDEXER_SIZE && fromBlock <= toBlock)
LoopCond == transferCount < cfg.MAX_INDEXER_SIZE /\ fromBlock <= toBlock

\* A catch block that logs the error and moves on to the next window.
ScanCatchSkipWindow(f) ==
    /\ pc' = "loop"
    /\ fault' = f
    /\ toBlock' = fromBlock - 1
    /\ fromBlock' = WindowFrom(lastIndexed, fromBlock - 1)
    /\ retries' = RETRIES
    /\ delay' = INITIAL_DELAY
    /\ logs' = << >>
    /\ transfers' = << >>
    /\ view' = NoView
    /\ waitTime' = NoWait
    /\ UNCHANGED << outcome, missed, fetched, last, lastIndexed, safeBlock,
                    transferCount, ids, excess >>

\* catch (err) { this.logger.error(`Error fetching logs ...`, err); throw err; }
ScanCatch(f) == CycleError(f)

RECURSIVE Log2Floor(_)
Log2Floor(x) == IF x < 2 THEN 0 ELSE 1 + Log2Floor(x \div 2)

RECURSIVE Pow2(_)
Pow2(n) == IF n = 0 THEN 1 ELSE 2 * Pow2(n - 1)

\* The distance between neighbouring doubles just below the whole number x, in
\* units of 2^-RANDOM_BITS.
SpacingBelow(x) == Pow2(Log2Floor(x - 1) - FRACTION_BITS + RANDOM_BITS)

\* Round to nearest, ties to even: the result of an operation whose exact value
\* lies gap units below a whole number, where doubles are spacing units apart,
\* as the distance of the rounded value below that whole number.
RoundGap(gap, spacing) ==
    LET q == gap \div spacing
        rest == gap % spacing
    IN  IF 2 * rest < spacing THEN q * spacing
        ELSE IF 2 * rest > spacing THEN (q + 1) * spacing
        ELSE IF q % 2 = 0 THEN q * spacing
        ELSE (q + 1) * spacing

\* Math.random() * 300 for the greatest value of Math.random(), 1 - 2^-53: the
\* distance of the product below 300.
JitterGap == RoundGap(JITTER_CEILING * 1, SpacingBelow(JITTER_CEILING))

\* const jitter = Math.random() * 300: a double from 0 up to 300, kept as the
\* range it is drawn from; 300 itself is not reached unless the product rounds
\* to it.
Jitter == [atLeast |-> 0, upTo |-> JITTER_CEILING, reached |-> JitterGap = 0]

\* backoff + jitter for the greatest jitter: the distance of the sum below
\* backoff + 300.
WaitGap(backoff) == RoundGap(JitterGap, SpacingBelow(backoff + JITTER_CEILING))

\* const waitTime = backoff + jitter, a sum of doubles
WaitRange(backoff) ==
    [atLeast |-> backoff + Jitter.atLeast,
     upTo |-> backoff + Jitter.upTo,
     reached |-> WaitGap(backoff) = 0]

\* const backoff = delay + the initial delay
BackoffLinear(d) == d + INITIAL_DELAY

\* const backoff = delay * 2
Backoff(d) == d * 2

\* if (retries === 0) throw err
RetryExhaustedAtOne(r) == r = 1

RetryExhausted(r) == r = 0

\* The callbacks of logs.map, each suspended at its own await.
Suspended(resp) == [i \in 1..Len(resp) |-> Pending]

\* One invocation of fn by fetchWithRetry(() => provider.getLogs(filter)):
\* it resolves, or it rejects and is retried with retries - 1 and delay * 2,
\* or it rejects with no retry left and the error is rethrown.
fetchWithRetry ==
    /\ pc = "loop"
    /\ LoopCond
    /\ attempts' = attempts + 1
    /\ \/ /\ \E resp \in Responses(fromBlock, toBlock) :
                /\ logs' = resp
                /\ transfers' = Suspended(resp)
          /\ pc' = "lookup"
          /\ retries' = RETRIES
          /\ delay' = INITIAL_DELAY
          /\ fetched' = IF attempts = 0 THEN Append(fetched, << fromBlock, toBlock >>)
                        ELSE fetched
          /\ UNCHANGED << last, scanVars, ids, excess, outcome, fault, missed, view,
                          waitTime >>
       \/ /\ ~RetryExhausted(retries)
          /\ retries' = retries - 1
          /\ delay' = Backoff(delay)
          /\ waitTime' = WaitRange(Backoff(delay))
          /\ view' = NoView
          /\ fetched' = IF attempts = 0 THEN Append(fetched, << fromBlock, toBlock >>)
                        ELSE fetched
          /\ UNCHANGED << pc, last, scanVars, logs, transfers, ids, excess, outcome,
                          fault, missed >>
       \/ /\ RetryExhausted(retries)
          /\ ScanCatch(Rejected("getLogs", attempts + 1))
    /\ UNCHANGED << chainVars, cfg, store, ran, evicted >>

\* One callback of logs.map: parseLog, then getBlock(log.blockNumber). Every
\* callback reaches its await before any other resumes, so each callback that
\* decoded its log finds blockCache empty and asks the node itself; the answer
\* is the node's view when it arrives.
DecodedNoNullCheck(log) ==
    [txHash |-> log.txHash, logIndex |-> log.logIndex,
     block |-> log.blockNumber, blockHash |-> getBlock(log.blockNumber)]

Decoded(log) ==
    IF getBlock(log.blockNumber) = 0
    THEN NoRecord
    ELSE [txHash |-> log.txHash, logIndex |-> log.logIndex,
          block |-> log.blockNumber, blockHash |-> getBlock(log.blockNumber)]

\* The callbacks of Promise.all settle in any order; the result keeps each
\* callback's value at the index of its log.
processLog ==
    /\ pc = "lookup"
    /\ \E i \in 1..Len(logs) :
          /\ transfers[i] = Pending
          /\ \/ /\ transfers' = [transfers EXCEPT ![i] = Decoded(logs[i])]
                /\ fault' = NoFault
                /\ view' = IF Decoded(logs[i]) = NoRecord
                           THEN NoView
                           ELSE view
             \/ \* parseLog throws: skip invalid logs
                /\ transfers' = [transfers EXCEPT ![i] = NoRecord]
                /\ fault' = NoFault
                /\ view' = NoView
             \/ \* provider.getBlock(log.blockNumber) rejects
                /\ transfers' = [transfers EXCEPT ![i] = NoRecord]
                /\ fault' = Rejected("getBlock", 1)
                /\ view' = NoView
    /\ attempts' = 0
    /\ waitTime' = NoWait
    /\ UNCHANGED << chainVars, cfg, store, pc, last, scanVars, retries, delay, logs,
                    ids, excess, outcome, ran, fetched, missed, evicted >>

\* Promise.all has resolved: every callback has returned.
AllSettled == \A i \in 1..Len(logs) : transfers[i] # Pending

\* transfers.filter(tx => tx !== null)
validTransfers == SelectSeq(transfers, LAMBDA t : t # NoRecord)

\* A loop body that leaves toBlock where it is.
NextToBlockSame(f, t) == t

\* toBlock = fromBlock - 1
NextToBlock(f, t) == f - 1

\* The end of a loop iteration: createMany, transferCount, the next window.
insertChunk ==
    /\ pc = "lookup"
    /\ AllSettled
    /\ \/ /\ store' = IF Len(validTransfers) > 0
                      THEN createMany(store, validTransfers)
                      ELSE store
          /\ transferCount' = transferCount + Len(validTransfers)
          /\ toBlock' = NextToBlock(fromBlock, toBlock)
          /\ fromBlock' = WindowFrom(lastIndexed, NextToBlock(fromBlock, toBlock))
          /\ logs' = << >>
          /\ transfers' = << >>
          /\ pc' = "loop"
          /\ view' = IF view.clean
                     THEN [view EXCEPT !.added = view.added + Cardinality(store')
                                                             - Cardinality(store)]
                     ELSE view
          /\ waitTime' = NoWait
          /\ UNCHANGED << last, lastIndexed, safeBlock, retries, delay, ids, excess,
                          outcome, fetched, fault, missed >>
       \/ \* prisma.transfer.createMany rejects
          /\ Len(validTransfers) > 0
          /\ ScanCatch(Rejected("createMany", 1))
          /\ UNCHANGED store
    /\ attempts' = 0
    /\ UNCHANGED << chainVars, cfg, ran, evicted >>

\* The loop condition fails: fetchLogs returns.
fetchLogsReturn ==
    /\ pc = "loop"
    /\ ~LoopCond
    /\ UNCHANGED store
    /\ Advance("fetchLogs")
    /\ lastIndexed' = 0
    /\ safeBlock' = 0
    /\ toBlock' = 0
    /\ fromBlock' = 0
    /\ transferCount' = 0
    /\ fetched' = << >>
    /\ UNCHANGED << chainVars, cfg, last, retries, delay, logs, transfers, ids,
                    excess, attempts, waitTime, fault, missed, evicted >>

\* findMany({take: n}) with no ordering: any n rows.
AnyRows(S, n) == { D \in SUBSET S : Cardinality(D) = Min(n, Cardinality(S)) }

\* findMany({orderBy: {block: 'desc'}, take: n}): the n newest rows.
NewestRows(S, n) ==
    { D \in SUBSET S : /\ Cardinality(D) = Min(n, Cardinality(S))
                        /\ \A d \in D : \A r \in S \ D : d.block >= r.block }

\* findMany({orderBy: {block: 'asc'}, take: n, select: {id}}): the sets of n rows
\* an ascending sort by block may put first (rows of equal block in any order).
OldestRows(S, n) ==
    { D \in SUBSET S : /\ Cardinality(D) = Min(n, Cardinality(S))
                        /\ \A d \in D : \A r \in S \ D : d.block <= r.block }

\* excess > 0, off by one
HasExcessAboveOne(e) == e > 1

\* if (excess > 0)
HasExcess(e) == e > 0

\* deleteOldTransfers, first await: totalTransfers = await prisma.transfer.count();
\* excess = totalTransfers - MAX_INDEXER_SIZE; if (excess > 0) ...
deleteOldTransfers ==
    /\ pc = "evict"
    /\ \/ /\ LET totalTransfers == Cardinality(store)
             IN IF HasExcess(totalTransfers - cfg.MAX_INDEXER_SIZE)
                THEN /\ excess' = totalTransfers - cfg.MAX_INDEXER_SIZE
                     /\ pc' = "evictFind"
                     /\ UNCHANGED << outcome, ran, view >>
                ELSE /\ Advance("deleteOldTransfers")
                     /\ UNCHANGED excess
          /\ UNCHANGED << last, scanVars, retries, delay, logs, transfers, ids,
                          waitTime, fetched, fault, missed >>
       \/ \* prisma.transfer.count() rejects
          /\ CycleError(Rejected("count", 1))
          /\ UNCHANGED ran
    /\ UNCHANGED << chainVars, cfg, store, attempts, evicted >>

\* deleteOldTransfers, second await: the ids of the excess oldest rows.
deleteOldTransfersFindMany ==
    /\ pc = "evictFind"
    /\ \/ /\ \E D \in OldestRows(store, excess) : ids' = { d.id : d \in D }
          /\ pc' = "evictDelete"
          /\ UNCHANGED << last, scanVars, retries, delay, logs, transfers, excess,
                          outcome, ran, view, waitTime, fetched, fault, missed >>
       \/ \* prisma.transfer.findMany rejects
          /\ CycleError(Rejected("findMany", 1))
          /\ UNCHANGED ran
    /\ UNCHANGED << chainVars, cfg, store, attempts, evicted >>

\* deleteOldTransfers, third await: deleteMany({ where: { id: { in: ids } } })
deleteOldTransfersDeleteMany ==
    /\ pc = "evictDelete"
    /\ \/ /\ store' = { r \in store : r.id \notin ids }
          /\ evicted' = { r \in store : r.id \in ids }
          /\ pc' = "evictReturn"
          /\ UNCHANGED << localVars, outcome, ran, view, waitTime, fetched, fault,
                          missed >>
       \/ \* prisma.transfer.deleteMany rejects
          /\ CycleError(Rejected("deleteMany", 1))
          /\ UNCHANGED << store, evicted, ran >>
    /\ UNCHANGED << chainVars, cfg, attempts >>

\* deleteOldTransfers returns once deleteMany has resolved.
deleteOldTransfersReturn ==
    /\ pc = "evictReturn"
    /\ Advance("deleteOldTransfers")
    /\ ids' = {}
    /\ excess' = 0
    /\ UNCHANGED << chainVars, cfg, store, last, scanVars, retries, delay, logs,
                    transfers, attempts, waitTime, fetched, fault, missed, evicted >>

\* The process stops in the middle of a cycle; the table keeps what was committed.
Crash ==
    /\ pc # "idle"
    /\ pc' = "idle"
    /\ outcome' = "crashed"
    /\ missed' = LeftUnfetched
    /\ view' = NoView
    /\ fault' = NoFault
    /\ attempts' = 0
    /\ waitTime' = NoWait
    /\ fetched' = << >>
    /\ ResetLocals
    /\ UNCHANGED << chainVars, cfg, store, ran, evicted >>

Next ==
    \/ ChainMine
    \/ ChainReorg
    \/ StartCycle
    \/ handleReorgs
    \/ handleReorgsGetBlock
    \/ handleReorgsDeleteMany
    \/ handleReorgsReturn
    \/ fetchLogsStart
    \/ fetchLogsHead
    \/ fetchWithRetry
    \/ processLog
    \/ insertChunk
    \/ fetchLogsReturn
    \/ deleteOldTransfers
    \/ deleteOldTransfersFindMany
    \/ deleteOldTransfersDeleteMany
    \/ deleteOldTransfersReturn
    \/ Crash

Spec == Init /\ [][Next]_vars

\* The steps of the scan loop; at most one of them is enabled in a state.
ScanStep == fetchWithRetry \/ processLog \/ insertChunk \/ fetchLogsReturn

\* The configurations under which termination is checked: the smallest chunk,
\* which gives a scan the most windows, no confirmation depth, a quota of 0 or 1.
LiveConfigs ==
    { c \in Configs : /\ c.CHUNK_SIZE = 1
                      /\ c.CONFIRMATIONS = 0
                      /\ c.MAX_INDEXER_SIZE <= 1 }

LiveInit == Init /\ cfg \in LiveConfigs

\* Every awaited call of the scan eventually settles and the scan resumes.
LiveSpec == LiveInit /\ [][Next]_vars /\ WF_vars(ScanStep)

\* ---------------------------------------------------------------- properties
Completed == pc = "idle" /\ outcome = "completed"

\* The step in which handleReorgs returns normally: with no row to check, with
\* the frontier found canonical, or after its deleteMany.
ReorgCheckReturns == pc \in {"reorg", "reorgBlock", "reorgReturn"} /\ pc' = "fetch"

\* handleReorgs and deleteOldTransfers at one of their awaits.
ReorgPcs == {"reorg", "reorgBlock", "reorgDelete", "reorgReturn"}

ScanPcs == {"fetch", "head", "loop", "lookup"}

EvictPcs == {"evict", "evictFind", "evictDelete", "evictReturn"}

\* C1. Retention bound: after every completed cycle the table holds at most
\* MAX_INDEXER_SIZE rows, whatever it held before and however many the scan added.
RetentionBound == Completed => Cardinality(store) <= cfg.MAX_INDEXER_SIZE

\* A completed cycle whose eviction removed rows and left the table at the cap.
RetentionBoundWitness ==
    /\ Completed
    /\ evicted # {}
    /\ Cardinality(store) = cfg.MAX_INDEXER_SIZE

\* C2. No orphaned frontier: when handleReorgs returns and the table is not empty,
\* the highest stored block has a row carrying the hash the chain reports for that
\* block now (a row getLastIndexedBlock may return), whatever the depth of the
\* reorganization.
FrontierCanonicalAfterReorgCheck ==
    [][(ReorgCheckReturns /\ store' # {}) =>
          \E r \in HighestRows(store') : getBlock(r.block) = r.blockHash]_vars

\* C3. Reorg rollback: if handleReorgs read the frontier (block B, hash H) and the
\* chain reported B missing or with another hash, its deleteMany leaves no row
\* with block >= B, none is there when handleReorgs returns, and no getLogs call
\* or insert of the cycle comes before that return.
RollbackBeforeScan ==
    [][/\ (pc = "reorgBlock" /\ pc' = "fetch") => ~Diverged(last)
       /\ (pc = "reorgDelete" /\ pc' = "reorgReturn")
            => \A r \in store' : r.block < last.block
       /\ (pc = "reorgReturn" /\ pc' = "fetch")
            => \A r \in store' : r.block < last'.block
       /\ (attempts' > attempts \/ ~(store' \subseteq store))
            => (ran # << >> /\ ran[1] = "handleReorgs")]_vars

\* handleReorgs has returned after removing the frontier row it read, and older
\* rows are still in the table.
RollbackBeforeScanWitness ==
    /\ pc = "fetch"
    /\ last # NoRecord
    /\ last \notin store
    /\ store # {}

\* C4. Interruptions create no gap: a block that an interrupted scan was due to
\* fetch and did not is still above the frontier when the cycle is over, so that
\* the next scan, which starts at frontier + 1, fetches it.
NoGapAfterInterruption ==
    pc = "idle" => \A b \in missed : b > LastBlockOrZero(store)

\* C5. Gap-free backward coverage: the windows of one scan are adjacent and
\* disjoint, none starts below lastIndexed + 1, and when the scan ends with its
\* window exhausted every block of (lastIndexed, safeBlock] lies in exactly one
\* window and no other block was fetched.
WindowsCoverScan ==
    pc \in {"loop", "lookup"} =>
        /\ \A i \in 1..Len(fetched) : fetched[i][1] >= lastIndexed + 1
        /\ \A i \in 1..(Len(fetched) - 1) : fetched[i + 1][2] = fetched[i][1] - 1
        /\ (pc = "loop" /\ fromBlock > toBlock) =>
              /\ \A b \in (lastIndexed + 1)..safeBlock :
                    Cardinality({ i \in 1..Len(fetched) :
                                    fetched[i][1] <= b /\ b <= fetched[i][2] }) = 1
              /\ \A i \in 1..Len(fetched) :
                    lastIndexed + 1 <= fetched[i][1] /\ fetched[i][2] <= safeBlock

\* A scan of several windows has run down to the frontier.
WindowsCoverScanWitness ==
    /\ pc = "loop"
    /\ fromBlock > toBlock
    /\ Len(fetched) >= 2

\* C6. No duplicate keys: no two rows share (txHash, logIndex), at any time.
NoDuplicateKeys == \A r \in store : \A q \in store : KeyOf(r) = KeyOf(q) => r = q

\* A scan has handed createMany more rows than the table holds: some were skipped.
NoDuplicateKeysWitness ==
    /\ pc = "loop"
    /\ transferCount > Cardinality(store)

\* C7. Write before evict: deleteOldTransfers starts only when fetchLogs returns,
\* no row is inserted once it has run, and a crash removes no row.
WriteBeforeEvict ==
    [][/\ (pc' = "evict" /\ pc # "evict") => (pc = "loop" /\ ~LoopCond)
       /\ (pc \in EvictPcs \/ \E i \in 1..Len(ran) : ran[i] = "deleteOldTransfers")
            => store' \subseteq store
       /\ outcome' = "crashed" => store \subseteq store']_vars

\* A crash between the scan's return and the eviction: the table is over the cap.
WriteBeforeEvictWitness ==
    /\ pc = "idle"
    /\ outcome = "crashed"
    /\ ran = << "handleReorgs", "fetchLogs" >>
    /\ Cardinality(store) > cfg.MAX_INDEXER_SIZE

\* C8. Idempotent scan: of two completed cycles in a row against an unchanged
\* chain view, with no failed call and no dropped log, the second inserts no row.
IdempotentScan == view.runs = 2 => view.added = 0

\* C9. Every chain call is retried: a failure of a chain call affects the cycle
\* only once that call has been invoked RETRIES + 1 times.
RetriedBeforeSurfacing ==
    fault.call \in {"getBlockNumber", "getBlock", "getLogs"} =>
        fault.attempts = RETRIES + 1

\* C10. fetchWithRetry invokes fn at most RETRIES + 1 = 6 times, one per retry
\* consumed plus the first; it returns at the first invocation that succeeds, and
\* throws, with the error of the sixth invocation, only when all six failed.
RetryBudget ==
    /\ attempts <= 6
    /\ (pc = "loop" /\ outcome = "running") => attempts = RETRIES - retries
    /\ pc = "lookup" => retries = RETRIES
    /\ fault.call = "getLogs" => (fault.attempts = 6 /\ fault.err = fault.attempts)

\* All six invocations failed and the error of the last one ended the cycle.
RetryBudgetWitness ==
    /\ pc = "idle"
    /\ outcome = "error"
    /\ fault.call = "getLogs"
    /\ fault.attempts = 6

\* C11, as claimed. Backoff schedule: the wait before attempt k (k >= 2) of a
\* fetchWithRetry call is INITIAL_DELAY * 2^(k-1), that is 2000, 4000, 8000,
\* 16000, 32000 ms, plus a jitter in [0, 300), so that it lies in
\* [base, base + 300), base + 300 excluded; nothing is waited before attempt 1,
\* and the attempt that succeeds is followed by no wait.
BackoffBelowCeiling ==
    LET base == << 2000, 4000, 8000, 16000, 32000 >>
        InSchedule(k) == /\ waitTime.atLeast = base[k]
                         /\ waitTime.upTo = base[k] + 300
                         /\ ~waitTime.reached
    IN  /\ attempts = 0 => waitTime = NoWait
        /\ (pc = "loop" /\ attempts >= 1) =>
              /\ InSchedule(attempts)
              /\ delay = base[attempts]
        /\ (pc = "lookup" /\ attempts = 1) => waitTime = NoWait
        /\ (pc = "lookup" /\ attempts >= 2) => InSchedule(attempts - 1)

\* C11, amended. Backoff schedule: the wait before attempt k (k >= 2) of a
\* fetchWithRetry call is the sum, in doubles, of INITIAL_DELAY * 2^(k-1), that
\* is 2000, 4000, 8000, 16000, 32000 ms, and a jitter in [0, 300): it lies in
\* [base, base + 300], base + 300 included, since the sum of the base and the
\* greatest jitter rounds to it; nothing is waited before attempt 1, and the
\* attempt that succeeds is followed by no wait.
BackoffSchedule ==
    LET base == << 2000, 4000, 8000, 16000, 32000 >>
        InSchedule(k) == /\ waitTime.atLeast = base[k]
                         /\ waitTime.upTo = base[k] + 300
                         /\ waitTime.reached
    IN  /\ Jitter.atLeast = 0 /\ Jitter.upTo = 300 /\ ~Jitter.reached
        /\ attempts = 0 => waitTime = NoWait
        /\ (pc = "loop" /\ attempts >= 1) =>
              /\ InSchedule(attempts)
              /\ delay = base[attempts]
        /\ (pc = "lookup" /\ attempts = 1) => waitTime = NoWait
        /\ (pc = "lookup" /\ attempts >= 2) => InSchedule(attempts - 1)

\* The sixth attempt has succeeded after the longest wait, of 32000 ms plus the
\* jitter, at most 32300 ms.
BackoffScheduleWitness ==
    /\ pc = "lookup"
    /\ attempts = 6
    /\ waitTime = [atLeast |-> 32000, upTo |-> 32300, reached |-> TRUE]

\* C12. startIndexer never propagates an error: an error thrown by a step of the
\* cycle ends the cycle in the catch block, with the table as the failing step
\* left it and none of the remaining steps run; the eviction starts only when the
\* scan has returned normally; no error stops the process.
NeverPropagates ==
    [][/\ (outcome' = "error" /\ outcome # "error") =>
             /\ pc' = "idle"
             /\ ran' = ran
             /\ store' = store
             /\ fault' # NoFault
       /\ outcome = "error" =>
             /\ pc = "idle"
             /\ \A i \in 1..Len(ran) : ran[i] # "deleteOldTransfers"
       /\ (pc' = "evict" /\ pc # "evict") =>
             /\ outcome' = "running"
             /\ ran' = << "handleReorgs", "fetchLogs" >>
       /\ outcome' = "crashed" => fault' = NoFault]_vars

\* A scan has failed with the table above the cap: the cycle is over, the error
\* was caught, and no eviction ran.
NeverPropagatesWitness ==
    /\ pc = "idle"
    /\ outcome = "error"
    /\ fault.call = "getLogs"
    /\ ran = << "handleReorgs" >>
    /\ Cardinality(store) > cfg.MAX_INDEXER_SIZE

\* C13. A failed fetch aborts the scan: when the sixth getLogs call of a window
\* fails, fetchLogs throws; the table is left as it was, with the rows of the
\* earlier windows of the cycle and no row of the failed window, and no further
\* window is fetched.
ScanAbortsOnFetchFailure ==
    [][/\ (pc = "loop" /\ RetryExhausted(retries) /\ attempts' = attempts + 1
             /\ pc' # "lookup") =>
             /\ pc' = "idle"
             /\ outcome' = "error"
             /\ fault'.call = "getLogs"
             /\ store' = store
             /\ fetched' = fetched
             /\ ran' = ran
       /\ (outcome = "error" /\ fault.call = "getLogs") =>
             /\ fetched # << >>
             /\ \A r \in store :
                   ~(fetched[Len(fetched)][1] <= r.block
                       /\ r.block <= fetched[Len(fetched)][2])]_vars

\* The fetch of the second window has failed; a row that the first window
\* inserted is in the table.
ScanAbortsOnFetchFailureWitness ==
    /\ pc = "idle"
    /\ outcome = "error"
    /\ fault.call = "getLogs"
    /\ Len(fetched) = 2
    /\ \E r \in store : fetched[1][1] <= r.block /\ r.block <= fetched[1][2]

\* C14. Dropped logs: a log whose decoding or block lookup fails is dropped and
\* nothing else happens to the cycle or to the other logs of the chunk; no
\* dropped log fails the chunk (only a rejected createMany does); of a chunk of
\* n logs with m dropped, the n - m others, each with the key and block of its
\* log and the hash the chain reported, are handed to createMany, and when it
\* resolves the scan moves to the next window.
DroppedLogsOnly ==
    [][/\ \A i \in 1..Len(logs) :
             (pc = "lookup" /\ pc' = "lookup" /\ transfers[i] = Pending
                /\ transfers'[i] # Pending) =>
                 /\ outcome' = outcome
                 /\ \A j \in 1..Len(logs) : j # i => transfers'[j] = transfers[j]
                 /\ getBlock(logs[i].blockNumber) = 0 => transfers'[i] = NoRecord
                 /\ transfers'[i] # NoRecord =>
                       /\ KeyOf(transfers'[i]) = KeyOf(logs[i])
                       /\ transfers'[i].block = logs[i].blockNumber
                       /\ transfers'[i].blockHash = getBlock(logs[i].blockNumber)
                       /\ transfers'[i].blockHash # 0
       /\ (pc = "lookup" /\ outcome' = "error") =>
             (AllSettled /\ fault'.call = "createMany")
       /\ (pc = "lookup" /\ pc' = "loop") =>
             LET m == Cardinality({ i \in 1..Len(transfers) : transfers[i] = NoRecord })
             IN  /\ AllSettled
                 /\ Len(transfers) = Len(logs)
                 /\ Len(validTransfers) = Len(logs) - m
                 /\ transferCount' = transferCount + Len(logs) - m
                 /\ \A i \in 1..Len(transfers) :
                       transfers[i] # NoRecord => KeyOf(transfers[i]) \in Keys(store')
                 /\ outcome' = "running"
                 /\ toBlock' = fromBlock - 1]_vars

\* A chunk one of whose logs failed its block lookup, the last to settle, has been
\* inserted without that log, and the scan is about to fetch the next window.
DroppedLogsOnlyWitness ==
    /\ pc = "loop"
    /\ outcome = "running"
    /\ fault.call = "getBlock"
    /\ transferCount >= 1
    /\ LoopCond

\* C15. Eviction of the oldest: with count rows above the cap deleteOldTransfers
\* deletes exactly count - cap rows, none of them with a block number above that
\* of a row it keeps; with count <= cap it deletes nothing.
EvictsOldest ==
    [][LET count == Cardinality(store)
           cap == cfg.MAX_INDEXER_SIZE
       IN  /\ (pc = "evict" /\ outcome' = "completed") =>
                 (count <= cap /\ store' = store)
           /\ (pc = "evict" /\ pc' = "evictFind") =>
                 (count > cap /\ excess' = count - cap)
           /\ (pc = "evictDelete" /\ pc' = "evictReturn") =>
                 /\ count > cap
                 /\ store' \subseteq store
                 /\ Cardinality(store \ store') = count - cap
                 /\ \A d \in store \ store' : \A r \in store' : d.block <= r.block
           /\ (pc \in EvictPcs /\ pc # "evictDelete") => store' = store]_vars

\* An eviction has deleted two rows and kept a row of a higher block.
EvictsOldestWitness ==
    /\ Completed
    /\ Cardinality(evicted) = 2
    /\ \E r \in store : \A d \in evicted : d.block < r.block

\* C16. Deterministic eviction: among the rows of the boundary block number the
\* ones with the lowest id are evicted, so that the rows deleted are a function
\* of the table contents.
EvictionByLowestId ==
    [][(pc = "evictDelete" /\ pc' = "evictReturn") =>
          \A d \in store \ store' : \A r \in store' :
              d.block = r.block => d.id < r.id]_vars

\* C17. Quota counts new rows only: the amount a chunk adds to transferCount is
\* the number of rows its createMany wrote; a record skipped because its
\* (txHash, logIndex) is in the table already is not counted.
QuotaCountsInsertedOnly ==
    [][(pc = "lookup" /\ pc' = "loop") =>
          transferCount' - transferCount = Cardinality(store') - Cardinality(store)]_vars

\* C18. One cycle at a time: a cycle begins only when no cycle is in progress,
\* and the table is changed only by the step the one running cycle is at: the
\* rollback before its scan, the inserts during its scan, the eviction after it.
SingleCycle ==
    [][/\ (pc' = "reorg" /\ pc # "reorg") => (pc = "idle" /\ outcome # "running")
       /\ (outcome = "running") <=> (pc # "idle")
       /\ store' # store =>
             \/ pc = "reorgDelete" /\ ran = << >> /\ store' \subseteq store
             \/ pc = "lookup" /\ ran = << "handleReorgs" >> /\ store \subseteq store'
             \/ pc = "evictDelete" /\ ran = << "handleReorgs", "fetchLogs" >>
                  /\ store' \subseteq store]_vars

\* A cycle has begun after the previous one ran to completion and left rows.
SingleCycleWitness ==
    /\ pc = "reorg"
    /\ outcome = "running"
    /\ view.runs = 1
    /\ store # {}

\* C19. Frame of the steps: the scan only adds rows, the reorg check and the
\* eviction only remove rows, nothing changes the table outside a cycle, and a
\* row that stays in the table keeps every field.
FrameOfSteps ==
    [][/\ pc \in ScanPcs => store \subseteq store'
       /\ pc \in ReorgPcs \cup EvictPcs => store' \subseteq store
       /\ pc = "idle" => store' = store
       /\ \A r \in store : \A q \in store' :
             (q.id = r.id \/ KeyOf(q) = KeyOf(r)) => q = r]_vars

\* A cycle has inserted rows and then evicted rows, and rows remain.
FrameOfStepsWitness ==
    /\ Completed
    /\ view.runs >= 1
    /\ view.added >= 1
    /\ evicted # {}
    /\ store # {}

\* C20, as claimed. Every scan terminates: toBlock decreases at each loop
\* iteration; the loop is left by a return exactly when the quota is reached or
\* the window is exhausted, and by an error only when the sixth getLogs call of a
\* window has failed; and a scan that has begun always comes to its end.
ScanEndsInThreeWays ==
    /\ [][/\ (pc = "lookup" /\ pc' = "loop") => toBlock' < toBlock
          /\ (pc = "loop" /\ pc' = "evict") =>
                (transferCount >= cfg.MAX_INDEXER_SIZE \/ fromBlock > toBlock)
          /\ (pc = "loop" /\ ~LoopCond) => (pc' # "lookup" /\ attempts' = attempts)
          /\ (pc \in {"loop", "lookup"} /\ outcome' = "error") =>
                (fault'.call = "getLogs" /\ fault'.attempts = RETRIES + 1)]_vars
    /\ (pc \in {"loop", "lookup"}) ~> (pc \notin {"loop", "lookup"})

\* C20, amended. Every scan terminates: toBlock decreases at each loop iteration;
\* the loop is left by a return exactly when the quota is reached or the window
\* is exhausted, and by an error only when the sixth getLogs call of a window has
\* failed or when the createMany of a settled chunk has rejected; and a scan
\* that has begun always comes to its end.
ScanTerminates ==
    /\ [][/\ (pc = "lookup" /\ pc' = "loop") => toBlock' < toBlock
          /\ (pc = "loop" /\ pc' = "evict") =>
                (transferCount >= cfg.MAX_INDEXER_SIZE \/ fromBlock > toBlock)
          /\ (pc = "loop" /\ ~LoopCond) => (pc' # "lookup" /\ attempts' = attempts)
          /\ (pc = "loop" /\ outcome' = "error") =>
                (fault'.call = "getLogs" /\ fault'.attempts = RETRIES + 1)
          /\ (pc = "lookup" /\ outcome' = "error") =>
                (fault'.call = "createMany" /\ AllSettled
                   /\ Len(validTransfers) > 0)]_vars
    /\ (pc \in {"loop", "lookup"}) ~> (pc \notin {"loop", "lookup"})

\* A scan of two windows has been ended by the rejection of the createMany of
\* its second window.
ScanTerminatesWitness ==
    /\ pc = "idle"
    /\ outcome = "error"
    /\ fault.call = "createMany"
    /\ ran = << "handleReorgs" >>
    /\ Len(fetched) = 2

\* C21. Window bounds: every window [fromBlock, toBlock] passed to getLogs has
\* L + 1 <= fromBlock <= toBlock <= safeHead and at most CHUNK_SIZE blocks, L being
\* the highest stored block when the scan began (0 for an empty table); when
\* safeHead <= L, also when it is negative, the loop does not run: no getLogs
\* call, nothing counted, no fetch pending.
WindowBounds ==
    /\ pc \in {"loop", "lookup"} =>
          \A i \in 1..Len(fetched) :
              /\ lastIndexed + 1 <= fetched[i][1]
              /\ fetched[i][1] <= fetched[i][2]
              /\ fetched[i][2] <= safeBlock
              /\ fetched[i][2] - fetched[i][1] + 1 <= cfg.CHUNK_SIZE
    /\ (pc = "loop" /\ fetched = << >>) =>
          /\ lastIndexed = LastBlockOrZero(store)
          /\ attempts = 0
          /\ transferCount = 0
    /\ (pc \in {"loop", "lookup"} /\ safeBlock <= lastIndexed) =>
          /\ pc = "loop"
          /\ ~LoopCond
          /\ fetched = << >>

\* A scan has found the safe head below the frontier of a table that holds rows.
WindowBoundsWitness ==
    /\ pc = "loop"
    /\ lastIndexed >= 1
    /\ safeBlock < lastIndexed
    /\ cfg.MAX_INDEXER_SIZE >= 1

\* C22. One lookup per block of a chunk: the node answers a callback's lookup
\* of a block only if no other log of the chunk in the same block had a lookup
\* answered. A lookup is seen to be answered when it yields a record or when it
\* rejects.
OneLookupPerBlock ==
    [][\A i \in 1..Len(logs) :
          (/\ pc = "lookup" /\ pc' = "lookup"
           /\ transfers[i] = Pending
           /\ (transfers'[i] \notin {Pending, NoRecord} \/ fault'.call = "getBlock")) =>
              \A j \in 1..Len(logs) :
                  (j # i /\ logs[j].blockNumber = logs[i].blockNumber)
                      => transfers[j] \in {Pending, NoRecord}]_vars

\* C23. Inserted block range: the scan reads L as the highest stored block and
\* the safe head as head - CONFIRMATIONS when it begins, and every row a chunk
\* inserts has a block number in L + 1 .. safe head.
InsertedInSafeRange ==
    [][/\ (pc = "fetch" /\ pc' = "head") => lastIndexed' = LastBlockOrZero(store)
       /\ (pc = "head" /\ pc' = "loop") =>
             /\ safeBlock' = head - cfg.CONFIRMATIONS
             /\ lastIndexed' = lastIndexed
       /\ pc = "lookup" =>
             \A r \in store' \ store :
                 lastIndexed + 1 <= r.block /\ r.block <= safeBlock]_vars

\* With one confirmation required, a scan has inserted a row of the safe head
\* while the head is above it.
InsertedInSafeRangeWitness ==
    /\ pc = "loop"
    /\ cfg.CONFIRMATIONS = 1
    /\ head > safeBlock
    /\ \E r \in store : r.block = safeBlock /\ r.block > lastIndexed

\* C24. One hash per block: rows of the table with the same block number carry
\* the same blockHash, at any time.
SameBlockSameHash ==
    \A r \in store : \A q \in store : r.block = q.block => r.blockHash = q.blockHash

\* C25. Frontier monotonicity: with a cap of at least 1, no step of a cycle other
\* than a rollback by handleReorgs lowers the highest stored block number, so a
\* completed cycle whose reorg check deleted nothing ends with a frontier at or
\* above the one it began with.
FrontierMonotone ==
    [][(cfg.MAX_INDEXER_SIZE >= 1 /\ ~(pc = "reorgDelete" /\ store' # store)) =>
          LastBlockOrZero(store') >= LastBlockOrZero(store)]_vars

\* A completed cycle has evicted a row of the frontier block and kept another
\* row of that block.
FrontierMonotoneWitness ==
    /\ Completed
    /\ cfg.MAX_INDEXER_SIZE >= 1
    /\ store # {}
    /\ \E e \in evicted : e.block = LastBlockOrZero(store)

====
